---------------------------- MODULE Spec2Model ----------------------------
(***************************************************************************)
(* A model of the ocean crate: crabs hunting prey in shared reefs          *)
(* (crab.rs), the beach that owns crabs (beach.rs) and the clan system     *)
(* (clans.rs).                                                             *)
(*                                                                         *)
(* Reef and Prey live in reef.rs / prey.rs, which are not part of the      *)
(* sources at hand; their operations (take_prey, add_prey, try_escape,     *)
(* diet) are modelled from the specification text.                         *)
(***************************************************************************)
EXTENDS Integers, Sequences, FiniteSets, TLC

(***************************************************************************)
(* Bounds of the model.                                                    *)
(***************************************************************************)
NumPrey == 2

PreyIds == 1..NumPrey
ReefIds == {"r1", "r2"}
CrabIds == {"c1", "c2"}
NoCrab == "none"

\* A crab's list of reefs grows to as many entries as there are reefs (a
\* reef may be discovered twice).
MaxReefsPerCrab == Cardinality(ReefIds)

\* The beach holds at most MaxBeach crabs.
MaxBeach == 2

Names == {"a", "b"}
ClanIds == {"x", "y"}

(***************************************************************************)
(* u32 values are pairs <<hi, lo>> of 16-bit halves, value hi * 2^16 + lo, *)
(* so that sums beyond 2^32 - 1 can be told from their wrapped value.      *)
(***************************************************************************)
Half == 65536
U32(hi, lo) == <<hi, lo>>
Speeds == {U32(0, 1), U32(0, 2), U32(32768, 0)}
Diets == {"Plants", "Fish"}

VARIABLES
    reefs,          \* ReefIds -> the multiset of prey resident in that reef
    preyDiet,       \* PreyIds -> the value prey.diet() returns
    crabs,          \* CrabIds -> the free-standing Crab values
    pc,             \* position of the running hunt(): idle, loop, release, return
    hunter,         \* the crab whose hunt() is running, NoCrab when none
    escaped_prey,   \* local of hunt(): the escaped prey, in order
    prey_caught,    \* local of hunt()
    hunt_pre,       \* history: the reefs as they were when hunt() was entered
    crab_pre,       \* history: the hunting crab as it was when hunt() was entered
    tried,          \* history: the prey taken in this hunt, with reef and escape outcome
    rounds,         \* history: number of loop rounds (calls of catch_prey) in this hunt
    queried,        \* history: the reef indices catch_prey queried in the latest round
    eaten,          \* history: PreyIds -> how many times the prey was caught
    catches,        \* history: number of hunts that returned true
    beach,          \* Beach.crabs: the sequence of resident crabs
    clans,          \* Beach.clan_system.clans: clan id -> (member name -> Crab)
    ret             \* the outcome of the Beach call that is returning, NoRet when none

huntVars == <<reefs, preyDiet, crabs, pc, hunter, escaped_prey, prey_caught,
              hunt_pre, crab_pre, tried, rounds, queried, eaten, catches>>

beachVars == <<beach, clans, ret>>

vars == <<huntVars, beachVars>>

(***************************************************************************)
(* Helpers on sequences.                                                   *)
(***************************************************************************)
Range(s) == {s[i] : i \in 1..Len(s)}

RECURSIVE SumOver(_, _)
SumOver(f, S) ==
    IF S = {} THEN 0
    ELSE LET x == CHOOSE y \in S : TRUE IN f[x] + SumOver(f, S \ {x})

(***************************************************************************)
(* Crab                                                                    *)
(***************************************************************************)
\* Crab::new: a crab with the given fields and no reefs.
CrabNew(name, speed, diet) ==
    [name |-> name, speed |-> speed, diet |-> diet, reefs |-> <<>>]

(***************************************************************************)
(* Reef: a pool of prey, a multiset given as PreyIds -> number of copies   *)
(* resident.  take_prey removes and returns an arbitrary resident prey     *)
(* (the empty set of outcomes stands for None); add_prey inserts the prey. *)
(***************************************************************************)
EmptyReef == [p \in PreyIds |-> 0]

\* The number of prey resident in a reef.
ReefSize(reef) == SumOver(reef, PreyIds)

take_prey(reef) ==
    {[prey |-> p, rest |-> [reef EXCEPT ![p] = @ - 1]] : p \in {q \in PreyIds : reef[q] > 0}}

add_prey(reef, prey) == [reef EXCEPT ![prey] = @ + 1]

\* Prey::try_escape: may depend on the crab and on chance.
try_escape(prey, crab) == BOOLEAN

(***************************************************************************)
(* Crab::discover_reef                                                     *)
(***************************************************************************)
DiscoverReef(c, r) ==
    /\ pc = "idle"
    /\ Len(crabs[c].reefs) < MaxReefsPerCrab
    /\ crabs' = [crabs EXCEPT ![c].reefs = Append(@, r)]
    /\ UNCHANGED <<reefs, preyDiet, pc, hunter, escaped_prey, prey_caught,
                   hunt_pre, crab_pre, tried, rounds, queried, eaten, catches, beachVars>>

(***************************************************************************)
(* Crab::catch_prey: the 0-based index of the first reef of the crab, in   *)
(* list order, whose take_prey yields a prey; -1 when every reef is empty  *)
(* or the crab has no reefs.                                               *)
(***************************************************************************)
\* Mutant: the scan starts at the second reef (for i in 1..len).
RECURSIVE catch_prey_scan_skip_first(_, _, _)
catch_prey_scan_skip_first(crab, rf, i) ==
    IF i = 0 /\ Len(crab.reefs) > 0 THEN catch_prey_scan_skip_first(crab, rf, 1)
    ELSE IF i >= Len(crab.reefs) THEN [index |-> -1, queried |-> <<>>]
    ELSE IF take_prey(rf[crab.reefs[i + 1]]) # {} THEN [index |-> i, queried |-> <<i>>]
    ELSE LET rest == catch_prey_scan_skip_first(crab, rf, i + 1)
         IN  [index |-> rest.index, queried |-> <<i>> \o rest.queried]

\* The for loop from index i on: the index that yields (-1 when none does) and
\* the indices whose reef was asked with take_prey, in order.
RECURSIVE catch_prey_scan(_, _, _)
catch_prey_scan(crab, rf, i) ==
    IF i >= Len(crab.reefs) THEN [index |-> -1, queried |-> <<>>]
    ELSE IF take_prey(rf[crab.reefs[i + 1]]) # {} THEN [index |-> i, queried |-> <<i>>]
    ELSE LET rest == catch_prey_scan(crab, rf, i + 1)
         IN  [index |-> rest.index, queried |-> <<i>> \o rest.queried]

catch_prey_index(crab, rf) == catch_prey_scan(crab, rf, 0).index

\* The outcomes of catch_prey: the prey, the index of its reef, the reefs afterwards.
catch_prey(crab, rf) ==
    LET i == catch_prey_index(crab, rf)
    IN  IF i = -1 THEN {}
        ELSE LET r == crab.reefs[i + 1]
             IN  {[prey |-> t.prey, reef_index |-> i, reefs |-> [rf EXCEPT ![r] = t.rest]]
                    : t \in take_prey(rf[r])}

(***************************************************************************)
(* Crab::release_prey: the reefs after the prey is added to the reef at    *)
(* the given (0-based) index of the crab's list.                           *)
(***************************************************************************)
\* Mutant: the prey is dropped instead of being put back.
release_prey_dropped(crab, rf, prey, reef_index) == rf

release_prey(crab, rf, prey, reef_index) ==
    [rf EXCEPT ![crab.reefs[reef_index + 1]] = add_prey(@, prey)]

(***************************************************************************)
(* Crab::hunt                                                              *)
(***************************************************************************)
\* The function-level local `reef_index` (line 136).  The binding of the
\* same name in the `if let` of the loop shadows it and never assigns it.
hunt_reef_index == 0

\* Entry: the locals are initialised.
HuntBegin(c) ==
    /\ pc = "idle"
    /\ hunter' = c
    /\ escaped_prey' = <<>>
    /\ prey_caught' = FALSE
    /\ pc' = "loop"
    /\ hunt_pre' = reefs
    /\ crab_pre' = crabs[c]
    /\ tried' = <<>>
    /\ rounds' = 0
    /\ queried' = <<>>
    /\ UNCHANGED <<reefs, preyDiet, crabs, eaten, catches, beachVars>>

\* Mutant: the diet is only looked at when the prey escapes.
gets_away_and(esc, crab, prey) == esc /\ crab.diet # preyDiet[prey]

\* Whether the taken prey gets away: it escapes or the crab does not eat it.
gets_away(esc, crab, prey) == esc \/ crab.diet # preyDiet[prey]

\* Mutant: an escaped prey is put back into its reef inside the loop.
HuntRound_release_in_loop ==
    /\ pc = "loop"
    /\ rounds' = rounds + 1
    /\ queried' = catch_prey_scan(crabs[hunter], reefs, 0).queried
    /\ LET crab == crabs[hunter]
           got == catch_prey(crab, reefs)
       IN  IF got = {}
           THEN /\ pc' = "release"
                /\ UNCHANGED <<reefs, escaped_prey, prey_caught, tried, eaten>>
           ELSE \E g \in got : \E esc \in try_escape(g.prey, crab) :
                /\ tried' = Append(tried, [prey |-> g.prey,
                                           reef |-> crab.reefs[g.reef_index + 1],
                                           reef_index |-> g.reef_index,
                                           esc |-> esc])
                /\ IF esc \/ crab.diet # preyDiet[g.prey]
                   THEN /\ reefs' = release_prey(crab, g.reefs, g.prey, g.reef_index)
                        /\ UNCHANGED <<escaped_prey, prey_caught, pc, eaten>>
                   ELSE /\ reefs' = g.reefs
                        /\ prey_caught' = TRUE
                        /\ pc' = "release"
                        /\ eaten' = [eaten EXCEPT ![g.prey] = @ + 1]
                        /\ UNCHANGED escaped_prey
    /\ UNCHANGED <<preyDiet, crabs, hunter, hunt_pre, crab_pre, catches, beachVars>>

\* One round of the while loop.
HuntRound ==
    /\ pc = "loop"
    /\ rounds' = rounds + 1
    /\ queried' = catch_prey_scan(crabs[hunter], reefs, 0).queried
    /\ LET crab == crabs[hunter]
           got == catch_prey(crab, reefs)
       IN  IF got = {}
           THEN \* no more prey to catch: break
                /\ pc' = "release"
                /\ UNCHANGED <<reefs, escaped_prey, prey_caught, tried, eaten>>
           ELSE \E g \in got : \E esc \in try_escape(g.prey, crab) :
                /\ reefs' = g.reefs
                /\ tried' = Append(tried, [prey |-> g.prey,
                                           reef |-> crab.reefs[g.reef_index + 1],
                                           reef_index |-> g.reef_index,
                                           esc |-> esc])
                /\ IF gets_away(esc, crab, g.prey)
                   THEN /\ escaped_prey' = Append(escaped_prey, g.prey)
                        /\ UNCHANGED <<prey_caught, pc, eaten>>
                   ELSE /\ prey_caught' = TRUE
                        /\ pc' = "release"
                        /\ eaten' = [eaten EXCEPT ![g.prey] = @ + 1]
                        /\ UNCHANGED escaped_prey
    /\ UNCHANGED <<preyDiet, crabs, hunter, hunt_pre, crab_pre, catches, beachVars>>

\* The reefs after the release loop has run over the escaped prey.
RECURSIVE release_all(_, _, _)
release_all(crab, rf, escaped) ==
    IF escaped = <<>> THEN rf
    ELSE release_all(crab, release_prey(crab, rf, Head(escaped), hunt_reef_index),
                     Tail(escaped))

\* The release loop; the function is about to return prey_caught.
HuntRelease ==
    /\ pc = "release"
    /\ reefs' = release_all(crabs[hunter], reefs, escaped_prey)
    /\ escaped_prey' = <<>>
    /\ pc' = "return"
    /\ UNCHANGED <<preyDiet, crabs, hunter, prey_caught, hunt_pre, crab_pre, tried,
                   rounds, queried, eaten, catches, beachVars>>

\* Mutant: the flag is returned inverted.
hunt_result_inverted == ~prey_caught

\* The value hunt() returns.
hunt_result == prey_caught

\* hunt() returns to its caller.
HuntReturn ==
    /\ pc = "return"
    /\ catches' = IF hunt_result THEN catches + 1 ELSE catches
    /\ pc' = "idle"
    /\ hunter' = NoCrab
    /\ prey_caught' = FALSE
    /\ hunt_pre' = reefs
    /\ crab_pre' = NoCrab
    /\ tried' = <<>>
    /\ rounds' = 0
    /\ queried' = <<>>
    /\ UNCHANGED <<reefs, preyDiet, crabs, escaped_prey, eaten, beachVars>>

(***************************************************************************)
(* u32 arithmetic as get_winner_clan uses it.                              *)
(***************************************************************************)
\* The exact sum of the speeds of the crabs f[n], n in S, as <<hi, lo>> with
\* lo < 2^16 and hi unbounded.
ExactSum(f, S) ==
    LET lo == SumOver([n \in S |-> f[n].speed[2]], S)
        hi == SumOver([n \in S |-> f[n].speed[1]], S)
    IN  <<hi + (lo \div Half), lo % Half>>

\* Whether an exact value does not fit in a u32.
Overflows(v) == v[1] >= Half

\* The exact value wrapped to 32 bits.
Wrap(v) == <<v[1] % Half, v[2]>>

\* Truncating division of <<hi, lo>> by n > 0.
DivBy(v, n) ==
    LET rest == (v[1] % n) * Half + v[2]
    IN  <<v[1] \div n, rest \div n>>

\* v > w
Greater(v, w) == v[1] > w[1] \/ (v[1] = w[1] /\ v[2] > w[2])

(***************************************************************************)
(* ClanSystem.  An Option is the set of its values: {} is None.            *)
(***************************************************************************)
EmptyClan == <<>>

\* Mutant: an existing clan keeps its members.
create_clan_keep(cs, clan_id) ==
    [c \in DOMAIN cs \cup {clan_id} |-> IF c \in DOMAIN cs THEN cs[c] ELSE EmptyClan]

create_clan(cs, clan_id) ==
    [c \in DOMAIN cs \cup {clan_id} |-> IF c = clan_id THEN EmptyClan ELSE cs[c]]

\* The clan is required to exist (get_mut(..).unwrap()).
add_member(cs, clan_id, member_name, crab) ==
    [cs EXCEPT ![clan_id] =
        [n \in DOMAIN @ \cup {member_name} |-> IF n = member_name THEN crab ELSE @[n]]]

get_clan(cs, clan_id) == IF clan_id \in DOMAIN cs THEN {cs[clan_id]} ELSE {}

get_clan_member_count(cs, clan_id) ==
    IF clan_id \in DOMAIN cs THEN Cardinality(DOMAIN cs[clan_id]) ELSE 0

\* The orders in which a HashMap may hand out its keys.
IterOrders(S) ==
    {o \in [1..Cardinality(S) -> S] : \A i, j \in DOMAIN o : i # j => o[i] # o[j]}

NoneYet == [largest_clan_id |-> {}, largest_clan_size |-> 0]

\* One pass of the loop body of get_largest_clan_id.
largest_step(cs, acc, clan_id) ==
    LET clan_size == get_clan_member_count(cs, clan_id)
    IN  IF clan_size > acc.largest_clan_size
        THEN [largest_clan_id |-> {clan_id}, largest_clan_size |-> clan_size]
        ELSE acc

RECURSIVE largest_scan(_, _, _, _)
largest_scan(cs, order, i, acc) ==
    IF i > Len(order) THEN acc
    ELSE largest_scan(cs, order, i + 1, largest_step(cs, acc, order[i]))

\* The clans are visited in the order the map iterates them.
get_largest_clan_id(cs, order) == largest_scan(cs, order, 1, NoneYet).largest_clan_id

(***************************************************************************)
(* Beach                                                                   *)
(***************************************************************************)
NoRet == [op |-> "none"]

Returning(op, a1, a2, kind, id) ==
    [op |-> op, a1 |-> a1, a2 |-> a2, val |-> [kind |-> kind, id |-> id]]

\* Mutant: the offspring takes the speed of its first parent.
breed_inherit_speed(name, crab1, crab2, random_diet) ==
    [name |-> name, speed |-> crab1.speed, diet |-> random_diet, reefs |-> <<>>]

\* Crab::breed: the given name, speed 1, a random diet, no reefs.
breed(name, crab1, crab2, random_diet) ==
    [name |-> name, speed |-> U32(0, 1), diet |-> random_diet, reefs |-> <<>>]

\* Beach::add_crab (with the Crab::new that makes the crab).
AddCrab(name, speed, diet) ==
    /\ ret = NoRet
    /\ Len(beach) < MaxBeach
    /\ beach' = Append(beach, CrabNew(name, speed, diet))
    /\ ret' = Returning("add_crab", name, "", "unit", "")
    /\ UNCHANGED <<clans, huntVars>>

\* Beach::breed_crabs, i and j 0-based.
BreedCrabs(i, j, name) ==
    /\ ret = NoRet
    /\ IF i >= Len(beach) \/ j >= Len(beach)
       THEN /\ ret' = Returning("breed_crabs", i, j, "panic", "")
            /\ UNCHANGED beach
       ELSE /\ Len(beach) < MaxBeach
            /\ \E d \in Diets :
                 beach' = Append(beach, breed(name, beach[i + 1], beach[j + 1], d))
            /\ ret' = Returning("breed_crabs", i, j, "unit", "")
    /\ UNCHANGED <<clans, huntVars>>

\* Mutant: the last crab of that name is found instead of the first.
find_crab_last(crab_name) ==
    LET hits == {i \in 1..Len(beach) : beach[i].name = crab_name}
    IN  IF hits = {} THEN {}
        ELSE {beach[CHOOSE i \in hits : \A j \in hits : i >= j]}

\* self.crabs.iter().find(|crab| crab.name() == crab_name), as an Option.
find_crab(crab_name) ==
    LET hits == {i \in 1..Len(beach) : beach[i].name = crab_name}
    IN  IF hits = {} THEN {}
        ELSE {beach[CHOOSE i \in hits : \A j \in hits : i <= j]}

\* Mutant: the clan is created anew on every call.
clans_for_add_reset(cs, clan_id) == create_clan(cs, clan_id)

\* Lines 102-104: the clan system once the clan is made sure to exist.
clans_for_add(cs, clan_id) ==
    IF get_clan(cs, clan_id) = {} THEN create_clan(cs, clan_id) ELSE cs

\* Mutant: an unknown name is skipped (if let Some(crab)) instead of unwrapped.
AddMemberToClan_skip_unknown(clan_id, crab_name) ==
    /\ ret = NoRet
    /\ LET crab == find_crab(crab_name)
           cs == clans_for_add(clans, clan_id)
       IN  IF crab = {}
           THEN /\ clans' = cs
                /\ ret' = Returning("add_member_to_clan", clan_id, crab_name, "unit", "")
           ELSE /\ clans' = add_member(cs, clan_id, crab_name, CHOOSE c \in crab : TRUE)
                /\ ret' = Returning("add_member_to_clan", clan_id, crab_name, "unit", "")
    /\ UNCHANGED <<beach, huntVars>>

\* Beach::add_member_to_clan.  The clan is created before the crab is
\* unwrapped, so the panic for an unknown name comes after the creation.
AddMemberToClan(clan_id, crab_name) ==
    /\ ret = NoRet
    /\ LET crab == find_crab(crab_name)
           cs == clans_for_add(clans, clan_id)
       IN  IF crab = {}
           THEN /\ clans' = cs
                /\ ret' = Returning("add_member_to_clan", clan_id, crab_name, "panic", "")
           ELSE /\ clans' = add_member(cs, clan_id, crab_name, CHOOSE c \in crab : TRUE)
                /\ ret' = Returning("add_member_to_clan", clan_id, crab_name, "unit", "")
    /\ UNCHANGED <<beach, huntVars>>

\* Mutant: the error is raised only when both clans are missing.
winner_inputs_invalid_both(clan1, clan2) == clan1 = {} /\ clan2 = {}

\* Line 118.
winner_inputs_invalid(clan1, clan2) == clan1 = {} \/ clan2 = {}

\* Mutant: a tie goes to the second clan (>= for >).
pick_winner_ge(avg1, avg2, id1, id2) ==
    IF Greater(avg1, avg2) THEN [kind |-> "some", id |-> id1]
    ELSE [kind |-> "some", id |-> id2]

\* Lines 138-145.
pick_winner(avg1, avg2, id1, id2) ==
    IF Greater(avg1, avg2) THEN [kind |-> "some", id |-> id1]
    ELSE IF Greater(avg2, avg1) THEN [kind |-> "some", id |-> id2]
    ELSE [kind |-> "none", id |-> ""]

\* The value of Beach::get_winner_clan on clan system cs.  The sums are u32:
\* a sum beyond 2^32 - 1 panics when the build checks overflow and wraps
\* when it does not; a division by a zero count panics.
get_winner_clan(cs, id1, id2, overflow_checks) ==
    LET clan1 == get_clan(cs, id1)
        clan2 == get_clan(cs, id2)
    IN  IF winner_inputs_invalid(clan1, clan2) THEN [kind |-> "err", id |-> ""]
        ELSE IF clan1 = {} \/ clan2 = {}
        THEN \* unwrap() of None
             [kind |-> "panic", id |-> ""]
        ELSE
        LET m1 == CHOOSE m \in clan1 : TRUE
            m2 == CHOOSE m \in clan2 : TRUE
            total1 == ExactSum(m1, DOMAIN m1)
            total2 == ExactSum(m2, DOMAIN m2)
            count1 == get_clan_member_count(cs, id1)
            count2 == get_clan_member_count(cs, id2)
        IN  IF overflow_checks /\ (Overflows(total1) \/ Overflows(total2))
            THEN [kind |-> "panic", id |-> ""]
            ELSE IF count1 = 0 \/ count2 = 0
            THEN [kind |-> "panic", id |-> ""]
            ELSE pick_winner(DivBy(Wrap(total1), count1), DivBy(Wrap(total2), count2),
                             id1, id2)

\* Beach::get_winner_clan (it leaves the beach as it is).
GetWinnerClan(id1, id2) ==
    /\ ret = NoRet
    /\ \E overflow_checks \in BOOLEAN :
         ret' = [op |-> "get_winner_clan", a1 |-> id1, a2 |-> id2,
                 val |-> get_winner_clan(clans, id1, id2, overflow_checks)]
    /\ UNCHANGED <<beach, clans, huntVars>>

\* The call returns to its caller.
BeachReturn ==
    /\ ret # NoRet
    /\ ret' = NoRet
    /\ UNCHANGED <<beach, clans, huntVars>>

(***************************************************************************)
(* The operations of a ClanSystem called directly (ClanSystem::new() is   *)
(* the empty system).                                                      *)
(***************************************************************************)
\* The crabs a caller may hand to add_member.
MemberCrabs == {CrabNew(n, s, "Plants") : n \in Names, s \in Speeds}

\* ClanSystem::create_clan; a2 is the member count the clan had before.
CreateClan(clan_id) ==
    /\ ret = NoRet
    /\ clans' = create_clan(clans, clan_id)
    /\ ret' = Returning("create_clan", clan_id, get_clan_member_count(clans, clan_id),
                        "unit", "")
    /\ UNCHANGED <<beach, huntVars>>

\* ClanSystem::add_member; get_mut(clan_id).unwrap() panics on an unknown clan.
AddMember(clan_id, member_name, crab) ==
    /\ ret = NoRet
    /\ IF clan_id \in DOMAIN clans
       THEN /\ clans' = add_member(clans, clan_id, member_name, crab)
            /\ ret' = Returning("add_member", clan_id, member_name, "unit", "")
       ELSE /\ ret' = Returning("add_member", clan_id, member_name, "panic", "")
            /\ UNCHANGED clans
    /\ UNCHANGED <<beach, huntVars>>

\* ClanSystem::get_largest_clan_id (&self).
GetLargestClanId ==
    /\ ret = NoRet
    /\ \E order \in IterOrders(DOMAIN clans) :
         LET found == get_largest_clan_id(clans, order)
         IN  ret' = IF found = {}
                    THEN Returning("get_largest_clan_id", "", "", "none", "")
                    ELSE Returning("get_largest_clan_id", "", "", "some",
                                   CHOOSE c \in found : TRUE)
    /\ UNCHANGED <<beach, clans, huntVars>>

(***************************************************************************)
(* Initial states and specifications.                                      *)
(***************************************************************************)
\* The reefs hold the prey in any distribution; each prey is in one reef.
InitReefs ==
    \E home \in [PreyIds -> ReefIds] :
        reefs = [r \in ReefIds |-> [p \in PreyIds |-> IF home[p] = r THEN 1 ELSE 0]]

HuntInit ==
    /\ InitReefs
    /\ preyDiet \in [PreyIds -> Diets]
    /\ \E d \in [CrabIds -> Diets] :
          crabs = [c \in CrabIds |-> CrabNew(c, U32(0, 1), d[c])]
    /\ pc = "idle"
    /\ hunter = NoCrab
    /\ escaped_prey = <<>>
    /\ prey_caught = FALSE
    /\ hunt_pre = reefs
    /\ crab_pre = NoCrab
    /\ tried = <<>>
    /\ rounds = 0
    /\ queried = <<>>
    /\ eaten = [p \in PreyIds |-> 0]
    /\ catches = 0
    /\ beach = <<>>
    /\ clans = <<>>
    /\ ret = NoRet

HuntNext ==
    \/ \E c \in CrabIds, r \in ReefIds : DiscoverReef(c, r)
    \/ \E c \in CrabIds : HuntBegin(c)
    \/ HuntRound
    \/ HuntRelease
    \/ HuntReturn

HuntSpec == HuntInit /\ [][HuntNext]_vars

\* Beach::new, on an ocean whose reefs hold no prey.
BeachInit ==
    /\ reefs = [r \in ReefIds |-> EmptyReef]
    /\ preyDiet = [p \in PreyIds |-> "Plants"]
    /\ crabs = [c \in CrabIds |-> CrabNew(c, U32(0, 1), "Plants")]
    /\ pc = "idle"
    /\ hunter = NoCrab
    /\ escaped_prey = <<>>
    /\ prey_caught = FALSE
    /\ hunt_pre = reefs
    /\ crab_pre = NoCrab
    /\ tried = <<>>
    /\ rounds = 0
    /\ queried = <<>>
    /\ eaten = [p \in PreyIds |-> 0]
    /\ catches = 0
    /\ beach = <<>>
    /\ clans = <<>>
    /\ ret = NoRet

BeachNext ==
    \/ \E n \in Names, s \in Speeds, d \in Diets : AddCrab(n, s, d)
    \/ \E i, j \in 0..MaxBeach, n \in Names : BreedCrabs(i, j, n)
    \/ \E id \in ClanIds, n \in Names : AddMemberToClan(id, n)
    \/ \E id1, id2 \in ClanIds : GetWinnerClan(id1, id2)
    \/ BeachReturn

BeachSpec == BeachInit /\ [][BeachNext]_vars

\* A ClanSystem of its own, driven through its public operations.
ClanNext ==
    \/ \E id \in ClanIds : CreateClan(id)
    \/ \E id \in ClanIds, n \in Names, crab \in MemberCrabs : AddMember(id, n, crab)
    \/ GetLargestClanId
    \/ BeachReturn

ClanSpec == BeachInit /\ [][ClanNext]_vars

Init == HuntInit

Next == (ret = NoRet /\ HuntNext) \/ (pc = "idle" /\ BeachNext)

Spec == Init /\ [][Next]_vars

(***************************************************************************)
(* Properties of hunt().  They are stated where hunt() is about to return  *)
(* (pc = "return"): the release loop has run and hunt_result is the value  *)
(* returned; hunt_pre and crab_pre are the reefs and the crab at entry.    *)
(***************************************************************************)
\* The distinct reefs of a crab.
ReefSet(crab) == Range(crab.reefs)

\* The number of prey resident in the reefs S.
TotalPrey(rf, S) == SumOver([r \in S |-> ReefSize(rf[r])], S)

\* The number of copies of prey p resident in the reefs S.
Copies(rf, S, p) == SumOver([r \in S |-> rf[r][p]], S)

AtReturn == pc = "return"

\* The last prey taken in this hunt; it is the caught one when hunt_result.
LastTried == tried[Len(tried)]

\* C1: prey conservation across a hunt.  The total number of prey in the
\* crab's distinct reefs at return equals the total at entry when hunt()
\* returns false and is one less when it returns true; per prey, no copy is
\* lost or duplicated (only the caught prey has one copy fewer).
C1_PreyConservation ==
    AtReturn =>
        LET S == ReefSet(crab_pre)
        IN  /\ TotalPrey(reefs, S)
                 = TotalPrey(hunt_pre, S) - (IF hunt_result THEN 1 ELSE 0)
            /\ \A p \in PreyIds :
                 Copies(reefs, S, p)
                    = Copies(hunt_pre, S, p)
                        - (IF hunt_result /\ LastTried.prey = p THEN 1 ELSE 0)

\* A hunt over two distinct reefs in which a prey escaped and another was caught.
C1_Witness ==
    /\ AtReturn
    /\ hunt_result
    /\ Len(tried) >= 2
    /\ Cardinality(ReefSet(crab_pre)) = 2

\* C2: hunt() catches a prey only when it does not escape and has the crab's
\* diet; each prey resident at entry is tried at most once; every prey tried
\* before the last got away; and hunt() returns false only after every prey
\* resident in any reef of the crab has been taken and got away.
C2_CatchRule ==
    AtReturn =>
        /\ \A i, j \in 1..Len(tried) : i # j => tried[i].prey # tried[j].prey
        /\ \A i \in 1..Len(tried) :
             /\ hunt_pre[tried[i].reef][tried[i].prey] > 0
             /\ (i < Len(tried) \/ ~hunt_result) =>
                    (tried[i].esc \/ preyDiet[tried[i].prey] # crab_pre.diet)
        /\ hunt_result =>
             /\ tried # <<>>
             /\ ~LastTried.esc
             /\ preyDiet[LastTried.prey] = crab_pre.diet
        /\ ~hunt_result =>
             \A r \in ReefSet(crab_pre), p \in PreyIds :
                 hunt_pre[r][p] > 0 => \E i \in 1..Len(tried) : tried[i].prey = p

\* A hunt that tried every prey and caught none, one for an escape and one
\* for its diet alone.
C2_Witness ==
    /\ AtReturn
    /\ ~hunt_result
    /\ Len(tried) = 2
    /\ \E i \in 1..2 : ~tried[i].esc /\ preyDiet[tried[i].prey] # crab_pre.diet
    /\ \E i \in 1..2 : tried[i].esc /\ preyDiet[tried[i].prey] = crab_pre.diet

\* C3: escaped prey are released into the reefs they came from.  At return
\* every reef holds exactly what it held at entry, except that the reef the
\* caught prey was taken from holds that one prey fewer.
C3_ReleasedWhenceTheyCame ==
    AtReturn =>
        \A r \in ReefIds, p \in PreyIds :
            reefs[r][p] = hunt_pre[r][p]
                - (IF hunt_result /\ LastTried.reef = r /\ LastTried.prey = p
                   THEN 1 ELSE 0)

\* C4: for a crab with no reefs, or whose reefs are all empty, hunt()
\* returns false and changes nothing: no reef and no field of the crab.
C4_NothingToHunt ==
    (AtReturn /\ TotalPrey(hunt_pre, ReefSet(crab_pre)) = 0) =>
        /\ ~hunt_result
        /\ reefs = hunt_pre
        /\ crabs[hunter] = crab_pre
        /\ tried = <<>>

\* A hunter whose two distinct reefs are both empty (their prey was caught before).
C4_Witness ==
    /\ AtReturn
    /\ TotalPrey(hunt_pre, ReefSet(crab_pre)) = 0
    /\ Cardinality(ReefSet(crab_pre)) = 2

\* C5: hunt() terminates.  While the loop runs, every round so far has
\* removed one prey from the crab's reefs and nothing was added back to any
\* reef, the loop can take its next round, and the number of rounds never
\* exceeds the number of prey resident in the crab's reefs at entry plus one.
C5_LoopBounded ==
    /\ pc = "loop" =>
         /\ TotalPrey(reefs, ReefSet(crab_pre))
               = TotalPrey(hunt_pre, ReefSet(crab_pre)) - rounds
         /\ \A r \in ReefIds, p \in PreyIds : reefs[r][p] <= hunt_pre[r][p]
         /\ ENABLED HuntRound
    /\ pc \in {"loop", "release", "return"} =>
         rounds <= TotalPrey(hunt_pre, ReefSet(crab_pre)) + 1

\* A hunt that needed the full number of rounds: every prey taken, none caught.
C5_Witness ==
    /\ pc = "release"
    /\ ~prey_caught
    /\ TotalPrey(hunt_pre, ReefSet(crab_pre)) = NumPrey
    /\ rounds = NumPrey + 1

\* C6: reefs are shared.  Each prey is caught at most once and a caught prey
\* is in no reef any more, so the hunts that returned true never outnumber
\* the prey initially resident; and a prey that a crab took from a reef
\* another crab has discovered too, and released, is again in a reef of
\* that other crab.
C6_SharedReefs ==
    /\ \A p \in PreyIds :
         /\ eaten[p] <= 1
         /\ eaten[p] = 1 => \A r \in ReefIds : reefs[r][p] = 0
    /\ catches <= NumPrey
    /\ AtReturn =>
         \A d \in CrabIds \ {hunter} : \A i \in 1..Len(tried) :
             (/\ tried[i].reef \in ReefSet(crabs[d])
              /\ (i < Len(tried) \/ ~hunt_result))
                => Copies(reefs, ReefSet(crabs[d]), tried[i].prey) = 1

\* C17: in every round the crab queries its reefs in attachment order, each
\* position at most once, and takes from the first reef that yields.  After
\* a round of the loop the positions queried are 0, 1, .., k without gap;
\* when the round took a prey, k is the position it was taken from, every
\* reef at a position before k is empty and no later position was queried;
\* when it took none, every position was queried and every reef is empty.
C17_ScanInOrder ==
    (pc \in {"loop", "release"} /\ rounds > 0) =>
        LET crab == crabs[hunter]
            took == Len(tried) = rounds
        IN  /\ \A n \in 1..Len(queried) : queried[n] = n - 1
            /\ Len(queried) <= Len(crab.reefs)
            /\ took =>
                 /\ queried # <<>>
                 /\ queried[Len(queried)] = LastTried.reef_index
                 /\ \A j \in 1..LastTried.reef_index : ReefSize(reefs[crab.reefs[j]]) = 0
            /\ ~took =>
                 /\ Len(queried) = Len(crab.reefs)
                 /\ \A j \in 1..Len(crab.reefs) : ReefSize(reefs[crab.reefs[j]]) = 0

\* A round that found the first reef empty and took a prey from the second.
C17_Witness ==
    /\ pc = "loop"
    /\ tried # <<>>
    /\ queried = <<0, 1>>
    /\ crabs[hunter].reefs[1] # crabs[hunter].reefs[2]

(***************************************************************************)
(* Properties of the beach and its clan system.  A call's outcome is in    *)
(* ret while the call returns; get_winner_clan leaves the clans as they    *)
(* were, so its outcome is compared with the clans of the same state.      *)
(***************************************************************************)
Members(cs, id) == IF id \in DOMAIN cs THEN DOMAIN cs[id] ELSE {}

\* floor(sum of member speeds / member count), without any 32-bit limit.
TruncatedMean(cs, id) == DivBy(ExactSum(cs[id], DOMAIN cs[id]), Cardinality(DOMAIN cs[id]))

\* The outcome the comparison of the truncated means asks for.
MeanWinner(cs, id1, id2) ==
    IF Greater(TruncatedMean(cs, id1), TruncatedMean(cs, id2))
    THEN [kind |-> "some", id |-> id1]
    ELSE IF Greater(TruncatedMean(cs, id2), TruncatedMean(cs, id1))
    THEN [kind |-> "some", id |-> id2]
    ELSE [kind |-> "none", id |-> ""]

WinnerReturning == ret.op = "get_winner_clan"

\* C7: for two existing clans with at least one member each,
\* get_winner_clan returns the id of the clan whose truncated mean speed
\* floor(sum / count) is strictly higher, and None when the means are equal.
C7_WinnerByTruncatedMean ==
    (/\ WinnerReturning
     /\ Members(clans, ret.a1) # {}
     /\ Members(clans, ret.a2) # {})
        => ret.val = MeanWinner(clans, ret.a1, ret.a2)

\* C8: get_winner_clan returns an error whenever id1 or id2 names no
\* existing clan, and the call changes neither the clans nor the crabs of
\* the beach (no clan is created).
C8_WinnerUnknownClan ==
    [][(ret = NoRet /\ ret'.op = "get_winner_clan") =>
          /\ clans' = clans
          /\ beach' = beach
          /\ (ret'.a1 \notin DOMAIN clans \/ ret'.a2 \notin DOMAIN clans)
                => ret'.val.kind = "err"]_vars

\* An error for a call whose first id names a clan and whose second does not.
C8_Witness ==
    /\ WinnerReturning
    /\ ret.a1 \in DOMAIN clans
    /\ ret.a2 \notin DOMAIN clans
    /\ ret.val.kind = "err"

\* C9: get_winner_clan is symmetric: in every state, for every pair of ids
\* and either build, get_winner_clan(a, b) and get_winner_clan(b, a) have the
\* same outcome.
C9_WinnerSymmetric ==
    \A a, b \in ClanIds, overflow_checks \in BOOLEAN :
        get_winner_clan(clans, a, b, overflow_checks)
            = get_winner_clan(clans, b, a, overflow_checks)

\* A call on two different clans that returned its second argument as the winner.
C9_Witness ==
    /\ WinnerReturning
    /\ ret.a1 # ret.a2
    /\ ret.val = [kind |-> "some", id |-> ret.a2]

AddMemberStep == ret = NoRet /\ ret'.op = "add_member_to_clan"

\* The first resident crab of the given name (there is one).
FirstNamed(name) ==
    beach[CHOOSE i \in 1..Len(beach) :
            /\ beach[i].name = name
            /\ \A j \in 1..(i - 1) : beach[j].name # name]

Resident(name) == \E i \in 1..Len(beach) : beach[i].name = name

\* C11: add_member_to_clan fails fatally whenever no crab on the beach has
\* exactly the given name, and then no member entry is added to any clan:
\* every clan that existed keeps exactly its members and a clan that is new
\* has none.
C11_UnknownCrabPanics ==
    [][(AddMemberStep /\ ~Resident(ret'.a2)) =>
          /\ ret'.val.kind = "panic"
          /\ \A c \in DOMAIN clans' :
               IF c \in DOMAIN clans THEN clans'[c] = clans[c]
               ELSE DOMAIN clans'[c] = {}]_vars

\* A failed call for a name that is not resident, on a beach that has crabs.
C11_Witness ==
    /\ ret.op = "add_member_to_clan"
    /\ ret.val.kind = "panic"
    /\ beach # <<>>
    /\ ~Resident(ret.a2)

\* C12: a crab can only belong to one clan: no crab name is a member of
\* more than one clan.
C12_OneClanPerCrab ==
    \A n \in Names : Cardinality({c \in DOMAIN clans : n \in DOMAIN clans[c]}) <= 1

C18_WinnerNeverAborts ==
    WinnerReturning => ret.val.kind \in {"some", "none", "err"}

\* C20: a failing add_member_to_clan leaves the clans unchanged: the same
\* clan ids, the same count, the same members (no empty clan is left behind).
C20_FailedAddChangesNothing ==
    [][(AddMemberStep /\ ret'.val.kind = "panic") => clans' = clans]_vars

(***************************************************************************)
(* Claims about a ClanSystem of its own (ClanSpec).                        *)
(***************************************************************************)
LargestStep == ret = NoRet /\ ret'.op = "get_largest_clan_id"

CreateStep == ret = NoRet /\ ret'.op = "create_clan"

\* Clan c has strictly more members than every other clan of cs.
StrictlyLargest(cs, c) ==
    /\ c \in DOMAIN cs
    /\ \A d \in DOMAIN cs \ {c} :
          get_clan_member_count(cs, c) > get_clan_member_count(cs, d)

\* C14: get_largest_clan_id returns none on a clan system with no clans,
\* it returns the id of the clan that has strictly more members than every
\* other clan whenever there is such a clan, and it does not modify the
\* clan system.
C14_LargestOfStrictMaximum ==
    [][LargestStep =>
          /\ clans' = clans
          /\ DOMAIN clans = {} => ret'.val.kind = "none"
          /\ \A c \in ClanIds :
                StrictlyLargest(clans, c) =>
                    ret'.val = [kind |-> "some", id |-> c]]_vars

\* C16: create_clan(id) leaves clan id existing with zero members, whether
\* the id was unknown or the clan had members; all other clans and their
\* members are unchanged; a second create_clan(id) right after the first
\* gives the same state as the first alone.
C16_CreateClanResets ==
    [][CreateStep =>
          LET id == ret'.a1
          IN  /\ id \in DOMAIN clans'
              /\ get_clan_member_count(clans', id) = 0
              /\ DOMAIN clans' = DOMAIN clans \cup {id}
              /\ \A c \in DOMAIN clans \ {id} : clans'[c] = clans[c]
              /\ create_clan(clans', id) = clans']_vars

\* create_clan has just emptied a clan that had members, next to another
\* clan that has members.
C16_Witness ==
    /\ ret.op = "create_clan"
    /\ ret.a2 > 0
    /\ clans[ret.a1] = EmptyClan
    /\ \E c \in DOMAIN clans \ {ret.a1} : clans[c] # EmptyClan

\* C19: whenever the clan system holds at least one clan, the result of
\* get_largest_clan_id is the id of an existing clan with at least as many
\* members as every clan; the result is no-clan only when the system has
\* zero clans.
C19_LargestIsMaximal ==
    ret.op = "get_largest_clan_id" =>
        IF DOMAIN clans = {}
        THEN ret.val.kind = "none"
        ELSE /\ ret.val.kind = "some"
             /\ ret.val.id \in DOMAIN clans
             /\ \A c \in DOMAIN clans :
                   get_clan_member_count(clans, ret.val.id)
                       >= get_clan_member_count(clans, c)


=============================================================================
